---- MODULE Spec2Model ----
(***************************************************************************)
(* json-prettier: the lexer (src/lexer.rs), the parser (src/parser.rs),    *)
(* the entry point parse (src/lib.rs) and the two renderers of the jp      *)
(* binary (src/bin/jp.rs).                                                 *)
(*                                                                         *)
(* Text is a sequence of Unicode scalar values (integers), as produced by  *)
(* str::chars().  A Rust Result is a record whose field res is "Ok" or     *)
(* "Err"; a panic (an unwrap of Err or of None) is res = "Panic", and the  *)
(* field err keeps the error value that was raised ("LexerError",          *)
(* "ParserError", or "None" for an unwrap of Option::None).                *)
(***************************************************************************)
EXTENDS Integers, Sequences, FiniteSets, TLC

VARIABLES
    pc,       \* position in the pipeline: "read", "render", "output", "string", "lex", "parse",
              \* "done", "printed"
    value,    \* the JsonObject handed to the compact renderer (round trip)
    input,    \* the text handed to the lexer, as given
    chars,    \* Lexer.chars: the characters not yet consumed
    tokens,   \* the Vec<Token> built by lexical_analyze / held by Parser
    index,    \* Parser.index
    result,   \* the Result of the operation that ran last
    out,      \* what the renderer printed
    calls     \* the calls of next_token made so far (a history, no field)

vars == <<pc, value, input, chars, tokens, index, result, out, calls>>

(***************************************************************************)
(* Characters.                                                             *)
(***************************************************************************)
Ascii ==
    << " ", "!", "\"", "#", "$", "%", "&", "'", "(", ")", "*", "+", ",", "-", ".", "/",
       "0", "1", "2", "3", "4", "5", "6", "7", "8", "9", ":", ";", "<", "=", ">", "?",
       "@", "A", "B", "C", "D", "E", "F", "G", "H", "I", "J", "K", "L", "M", "N", "O",
       "P", "Q", "R", "S", "T", "U", "V", "W", "X", "Y", "Z", "[", "\\", "]", "^", "_",
       "U+0060", "a", "b", "c", "d", "e", "f", "g", "h", "i", "j", "k", "l", "m", "n", "o",
       "p", "q", "r", "s", "t", "u", "v", "w", "x", "y", "z", "{", "|", "}", "~" >>

\* The scalar value of a printable ASCII character (the grave accent, which a
\* TLA+ string cannot hold, is listed by its code point and never looked up).
Ch(c) == 31 + (CHOOSE i \in 1..Len(Ascii) : Ascii[i] = c)

\* The text spelled by a sequence of one-character strings.
Txt(s) == [i \in 1..Len(s) |-> Ch(s[i])]

LBRACE    == Ch("{")
RBRACE    == Ch("}")
LBRACKET  == Ch("[")
RBRACKET  == Ch("]")
COMMA     == Ch(",")
COLON     == Ch(":")
QUOTE     == Ch("\"")
BACKSLASH == Ch("\\")
SLASH     == Ch("/")
PLUS      == Ch("+")
MINUS     == Ch("-")
DOT       == Ch(".")
SPACE     == Ch(" ")
NEWLINE   == 10
ESC       == 27
\* U+00B2, a character that is numeric and no ASCII digit.
SUPER2    == 178

DIGIT0    == Ch("0")
DIGIT9    == Ch("9")
DIGIT1    == Ch("1")
DIGIT2    == Ch("2")
DIGIT3    == Ch("3")
LOWER_A   == Ch("a")
LOWER_F   == Ch("f")
UPPER_A   == Ch("A")
UPPER_F   == Ch("F")
LOWER_E   == Ch("e")
UPPER_E   == Ch("E")
LOWER_B   == Ch("b")
LOWER_N   == Ch("n")
LOWER_R   == Ch("r")
LOWER_T   == Ch("t")
LOWER_U   == Ch("u")
LOWER_M   == Ch("m")

AsciiDigits == DIGIT0..DIGIT9

\* char::is_whitespace: the Unicode White_Space property.
is_whitespace(c) ==
    \/ c \in 9..13
    \/ c \in {32, 133, 160, 5760, 8232, 8233, 8239, 8287, 12288}
    \/ c \in 8192..8202

\* char::is_numeric: general categories Nd, Nl, No.  The ASCII digits and the
\* Latin-1 members of No are listed; the other blocks are outside the inputs.
is_numeric(c) == c \in AsciiDigits \/ c \in {178, 179, 185, 188, 189, 190}

is_ascii_hexdigit(c) ==
    \/ c \in AsciiDigits
    \/ c \in LOWER_A..LOWER_F
    \/ c \in UPPER_A..UPPER_F

\* Whether c can start a number (is_prefix) or continue one.
is_number(c, is_prefix) ==
    IF is_prefix
    THEN is_numeric(c) \/ c \in {PLUS, MINUS, DOT}
    ELSE is_numeric(c) \/ c \in {PLUS, MINUS, LOWER_E, UPPER_E, DOT}

(***************************************************************************)
(* Numbers.  An f64 is kept as sign, decimal mantissa and decimal exponent *)
(* (neg, m, e) with m not divisible by 10, or m = 0 and e = 0: two texts   *)
(* denote the same f64 iff they normalise to the same triple, as long as   *)
(* the mantissa has at most 15 digits and the value is within the finite   *)
(* range of f64, which every number within the bounds is.                  *)
(***************************************************************************)
RECURSIVE Pow10(_)
Pow10(n) == IF n = 0 THEN 1 ELSE 10 * Pow10(n - 1)

RECURSIVE Normalise(_, _)
Normalise(m, e) ==
    IF m = 0 THEN [m |-> 0, e |-> 0]
    ELSE IF m % 10 = 0 THEN Normalise(m \div 10, e + 1)
    ELSE [m |-> m, e |-> e]

F64(neg, m, e) ==
    LET n == Normalise(m, e) IN [neg |-> neg, m |-> n.m, e |-> n.e]

\* The number of ASCII digits of s from position i on.
RECURSIVE DigitRun(_, _)
DigitRun(s, i) ==
    IF i <= Len(s) /\ s[i] \in AsciiDigits THEN 1 + DigitRun(s, i + 1) ELSE 0

\* The value of the n digits of s from position i on.
RECURSIVE DigitsValue(_, _, _)
DigitsValue(s, i, n) ==
    IF n = 0 THEN 0
    ELSE 10 * DigitsValue(s, i, n - 1) + (s[i + n - 1] - DIGIT0)

\* str::parse::<f64> on a text of number characters:
\*   [+-] (digits [. digits*] | . digits) [(e|E) [+-] digits], nothing else.
ParseF64(s) ==
    LET n      == Len(s)
        signed == n >= 1 /\ s[1] \in {PLUS, MINUS}
        neg    == n >= 1 /\ s[1] = MINUS
        p0     == IF signed THEN 2 ELSE 1
        ni     == DigitRun(s, p0)
        p1     == p0 + ni
        hasDot == p1 <= n /\ s[p1] = DOT
        nf     == IF hasDot THEN DigitRun(s, p1 + 1) ELSE 0
        p2     == IF hasDot THEN p1 + 1 + nf ELSE p1
        hasExp == p2 <= n /\ s[p2] \in {LOWER_E, UPPER_E}
        esign  == hasExp /\ p2 + 1 <= n /\ s[p2 + 1] \in {PLUS, MINUS}
        eneg   == esign /\ s[p2 + 1] = MINUS
        p3     == IF esign THEN p2 + 2 ELSE p2 + 1
        ne     == IF hasExp THEN DigitRun(s, p3) ELSE 0
        stop   == IF hasExp THEN p3 + ne ELSE p2
        ok     == ni + nf >= 1 /\ (hasExp => ne >= 1) /\ stop = n + 1
        mant   == DigitsValue(s, p0, ni) * Pow10(nf) + DigitsValue(s, p1 + 1, nf)
        ex     == IF hasExp THEN DigitsValue(s, p3, ne) ELSE 0
    IN  IF ok
        THEN [ok |-> TRUE, val |-> F64(neg, mant, (IF eneg THEN 0 - ex ELSE ex) - nf)]
        ELSE [ok |-> FALSE, val |-> F64(FALSE, 0, 0)]

(***************************************************************************)
(* Tokens (lexer.rs, enum Token).                                          *)
(***************************************************************************)
TString(s)    == [type |-> "String", s |-> s]
TNumber(n)    == [type |-> "Number", n |-> n]
TBool(b)      == [type |-> "Bool", b |-> b]
TNull         == [type |-> "Null"]
TWhiteSpace   == [type |-> "WhiteSpace"]
TLeftBrace    == [type |-> "LeftBrace"]
TRightBrace   == [type |-> "RightBrace"]
TLeftBracket  == [type |-> "LeftBracket"]
TRightBracket == [type |-> "RightBracket"]
TComma        == [type |-> "Comma"]
TColon        == [type |-> "Colon"]

\* Option::None, where a token or a value is expected.
None == [type |-> "None"]

(***************************************************************************)
(* Results.                                                                *)
(***************************************************************************)
\* Ok(v), with the characters the lexer has left.
Ok(v, rest)  == [res |-> "Ok", err |-> "", val |-> v, chars |-> rest]
\* Err(JsonPretError::LexerError(..)) or Err(JsonPretError::ParserError(..)).
Err(e, rest) == [res |-> "Err", err |-> e, val |-> None, chars |-> rest]
\* Option::unwrap on None.
PanicNone(rest) == [res |-> "Panic", err |-> "None", val |-> None, chars |-> rest]
\* Result::unwrap: Err(e) panics, Ok passes.
unwrap(r) == IF r.res = "Err" THEN [r EXCEPT !.res = "Panic"] ELSE r

\* The suffix of s from position i on.
Drop(s, i) == SubSeq(s, i, Len(s))

(***************************************************************************)
(* The lexer (lexer.rs).  Every function takes the characters left and     *)
(* returns, with its result, the characters it leaves.                     *)
(***************************************************************************)
\* A get_token that leaves the character where it is.
get_token_keep(cs, token) == Ok(token, cs)

\* Lexer::get_token: consume one character, return the given token.
get_token(cs, token) == Ok(token, Tail(cs))

\* The length of the longest prefix of cs made of number characters.
RECURSIVE NumberRun(_, _)
NumberRun(cs, i) ==
    IF i <= Len(cs) /\ is_number(cs[i], FALSE) THEN 1 + NumberRun(cs, i + 1) ELSE 0

\* Lexer::parse_number.
parse_number(cs) ==
    LET n          == NumberRun(cs, 1)
        number_str == SubSeq(cs, 1, n)
        rest       == Drop(cs, n + 1)
        parsed     == ParseF64(number_str)
    IN  IF parsed.ok THEN Ok(TNumber(parsed.val), rest) ELSE Err("LexerError", rest)

\* Lexer::get_string: up to length characters, fewer when the input ends.
get_string(cs, length) ==
    LET n == IF Len(cs) < length THEN Len(cs) ELSE length
    IN  [string |-> SubSeq(cs, 1, n), chars |-> Drop(cs, n + 1)]

TrueText  == Txt(<<"t", "r", "u", "e">>)
FalseText == Txt(<<"f", "a", "l", "s", "e">>)
NullText  == Txt(<<"n", "u", "l", "l">>)

\* Lexer::parse_boolean.
parse_boolean(cs, b) ==
    LET got == IF b THEN get_string(cs, 4) ELSE get_string(cs, 5)
    IN  IF got.string = TrueText \/ got.string = FalseText
        THEN Ok(TBool(b), got.chars)
        ELSE Err("LexerError", got.chars)

\* Lexer::parse_null.
parse_null(cs) ==
    LET got == get_string(cs, 4)
    IN  IF got.string = NullText THEN Ok(TNull, got.chars) ELSE Err("LexerError", got.chars)

\* The value of a hexadecimal digit.
HexValue(c) ==
    IF c \in AsciiDigits THEN c - DIGIT0
    ELSE IF c \in LOWER_A..LOWER_F THEN c - LOWER_A + 10
    ELSE c - UPPER_A + 10

\* u16::from_str_radix(s, 16) on a text of hexadecimal digits, which is empty
\* (an error) or at most four digits long (no overflow).
RECURSIVE HexNumber(_)
HexNumber(s) ==
    IF s = <<>> THEN 0
    ELSE 16 * HexNumber(SubSeq(s, 1, Len(s) - 1)) + HexValue(s[Len(s)])

\* Iterator::filter_map keeping the hexadecimal digits.
RECURSIVE HexDigitsOf(_)
HexDigitsOf(s) ==
    IF s = <<>> THEN <<>>
    ELSE (IF is_ascii_hexdigit(s[1]) THEN <<s[1]>> ELSE <<>>) \o HexDigitsOf(Tail(s))

\* Lexer::get_code_point: read four characters (each read unwrapped), keep
\* those that are hexadecimal digits, and parse what is kept.
get_code_point(cs) ==
    IF Len(cs) < 4 THEN PanicNone(<<>>)
    ELSE LET hexs == HexDigitsOf(SubSeq(cs, 1, 4))
             rest == Drop(cs, 5)
         IN  IF hexs = <<>> THEN Err("LexerError", rest) ELSE Ok(HexNumber(hexs), rest)

IsHighSurrogate(u) == u \in 55296..56319    \* D800..DBFF
IsLowSurrogate(u)  == u \in 56320..57343    \* DC00..DFFF

\* String::from_utf16: the scalars of a UTF-16 sequence, or an error when a
\* surrogate has no partner.
RECURSIVE from_utf16(_)
from_utf16(units) ==
    IF units = <<>> THEN [ok |-> TRUE, s |-> <<>>]
    ELSE IF IsHighSurrogate(units[1])
    THEN IF Len(units) >= 2 /\ IsLowSurrogate(units[2])
         THEN LET more == from_utf16(Drop(units, 3))
                  c    == 65536 + (units[1] - 55296) * 1024 + (units[2] - 56320)
              IN  [ok |-> more.ok, s |-> <<c>> \o more.s]
         ELSE [ok |-> FALSE, s |-> <<>>]
    ELSE IF IsLowSurrogate(units[1])
    THEN [ok |-> FALSE, s |-> <<>>]
    ELSE LET more == from_utf16(Tail(units))
         IN  [ok |-> more.ok, s |-> <<units[1]>> \o more.s]

\* Lexer::push_utf16: append the decoded buffer to string and clear it.
push_utf16(string, utf16) ==
    IF utf16 = <<>> THEN [ok |-> TRUE, string |-> string, utf16 |-> utf16]
    ELSE LET d == from_utf16(utf16)
         IN  IF d.ok
             THEN [ok |-> TRUE, string |-> string \o d.s, utf16 |-> <<>>]
             ELSE [ok |-> FALSE, string |-> string, utf16 |-> utf16]

\* The escape letters parse_string accepts after a backslash, besides u.
EscapeLetters ==
    {QUOTE, BACKSLASH, SLASH, LOWER_B, LOWER_F, LOWER_N, LOWER_R, LOWER_T}

\* An escape letter appended without its backslash.
EscapeTextBare(c) == <<c>>

\* What parse_string appends for the escape letter c.
EscapeText(c) == <<BACKSLASH, c>>

\* A result of parse_string, with the UTF-16 buffer as it is at the return.
StrOk(string, utf16, rest) ==
    [res |-> "Ok", err |-> "", val |-> TString(string), chars |-> rest, utf16 |-> utf16]
StrErr(utf16, rest) ==
    [res |-> "Err", err |-> "LexerError", val |-> None, chars |-> rest, utf16 |-> utf16]
StrPanic(utf16, rest) ==
    [res |-> "Panic", err |-> "None", val |-> None, chars |-> rest, utf16 |-> utf16]

\* The while loop of Lexer::parse_string.
RECURSIVE parse_string_loop(_, _, _)
parse_string_loop(cs, string, utf16) ==
    IF cs = <<>> THEN StrOk(string, utf16, cs)
    ELSE LET c == cs[1] IN
    IF c = BACKSLASH
    THEN IF Len(cs) < 2 THEN StrPanic(utf16, <<>>)
         ELSE LET escaped_c == cs[2]
                  rest      == Drop(cs, 3)
              IN  IF escaped_c \in EscapeLetters
                  THEN LET p == push_utf16(string, utf16)
                       IN  IF p.ok
                           THEN parse_string_loop(rest, p.string \o EscapeText(escaped_c), p.utf16)
                           ELSE StrErr(utf16, rest)
                  ELSE IF escaped_c = LOWER_U
                  THEN LET cp == get_code_point(rest)
                       IN  IF cp.res = "Ok"
                           THEN parse_string_loop(cp.chars, string, Append(utf16, cp.val))
                           ELSE IF cp.res = "Err" THEN StrErr(utf16, cp.chars)
                           ELSE StrPanic(utf16, cp.chars)
                  ELSE StrErr(utf16, rest)
    ELSE IF c = QUOTE
    THEN LET p == push_utf16(string, utf16)
         IN  IF p.ok THEN StrOk(p.string, p.utf16, Tail(cs)) ELSE StrErr(utf16, Tail(cs))
    ELSE LET p == push_utf16(string, utf16)
         IN  IF p.ok
             THEN parse_string_loop(Tail(cs), Append(p.string, c), p.utf16)
             ELSE StrErr(utf16, Tail(cs))

\* Lexer::parse_string: skip the opening quote, then loop.
parse_string(cs) ==
    parse_string_loop(IF cs = <<>> THEN cs ELSE Tail(cs), <<>>, <<>>)

\* A result of parse_string as next_token sees it.
AsResult(r) == [res |-> r.res, err |-> r.err, val |-> r.val, chars |-> r.chars]

\* Lexer::next_token: Ok(Some(token)), Ok(None) at the end of the input, or
\* Err for a character that starts no token; the unwraps inside it panic.
next_token(cs) ==
    IF cs = <<>> THEN Ok(None, cs)
    ELSE LET c == cs[1] IN
         IF is_whitespace(c) \/ c = NEWLINE THEN get_token(cs, TWhiteSpace)
         ELSE IF is_number(c, TRUE) THEN unwrap(parse_number(cs))
         ELSE IF c = LBRACE THEN get_token(cs, TLeftBrace)
         ELSE IF c = RBRACE THEN get_token(cs, TRightBrace)
         ELSE IF c = LBRACKET THEN get_token(cs, TLeftBracket)
         ELSE IF c = RBRACKET THEN get_token(cs, TRightBracket)
         ELSE IF c = COMMA THEN get_token(cs, TComma)
         ELSE IF c = COLON THEN get_token(cs, TColon)
         ELSE IF c = QUOTE THEN unwrap(AsResult(parse_string(cs)))
         ELSE IF c = LOWER_T THEN unwrap(parse_boolean(cs, TRUE))
         ELSE IF c = LOWER_F THEN unwrap(parse_boolean(cs, FALSE))
         ELSE IF c = LOWER_N THEN unwrap(parse_null(cs))
         ELSE Err("LexerError", cs)

(***************************************************************************)
(* Values (lib.rs, enum JsonObject).  An Object is a BTreeMap<String, _>:  *)
(* its entries are kept as the sequence the map iterates, in ascending     *)
(* order of key, one entry per key.                                        *)
(***************************************************************************)
VString(s)      == [type |-> "String", s |-> s]
VNumber(n)      == [type |-> "Number", n |-> n]
VBool(b)        == [type |-> "Bool", b |-> b]
VNull           == [type |-> "Null"]
VArray(items)   == [type |-> "Array", items |-> items]
VObject(entries) == [type |-> "Object", entries |-> entries]

\* Ord for String: lexicographic by scalar value, a proper prefix first.
RECURSIVE StrLess(_, _)
StrLess(a, b) ==
    IF b = <<>> THEN FALSE
    ELSE IF a = <<>> THEN TRUE
    ELSE IF a[1] # b[1] THEN a[1] < b[1]
    ELSE StrLess(Tail(a), Tail(b))

\* A map that keeps the first value of a key (Entry::or_insert).
RECURSIVE insert_keep_first(_, _, _)
insert_keep_first(obj, key, v) ==
    IF obj = <<>> THEN <<[k |-> key, v |-> v]>>
    ELSE IF obj[1].k = key THEN obj
    ELSE IF StrLess(key, obj[1].k) THEN <<[k |-> key, v |-> v]>> \o obj
    ELSE <<obj[1]>> \o insert_keep_first(Tail(obj), key, v)

\* A map that iterates in the order of insertion (an index map).
RECURSIVE insert_unsorted(_, _, _)
insert_unsorted(obj, key, v) ==
    IF obj = <<>> THEN <<[k |-> key, v |-> v]>>
    ELSE IF obj[1].k = key THEN <<[k |-> key, v |-> v]>> \o Tail(obj)
    ELSE <<obj[1]>> \o insert_unsorted(Tail(obj), key, v)

\* BTreeMap::insert: replace the value of an equal key, else add the entry at
\* its place in the order of keys.
RECURSIVE insert(_, _, _)
insert(obj, key, v) ==
    IF obj = <<>> THEN <<[k |-> key, v |-> v]>>
    ELSE IF obj[1].k = key THEN <<[k |-> key, v |-> v]>> \o Tail(obj)
    ELSE IF StrLess(key, obj[1].k) THEN <<[k |-> key, v |-> v]>> \o obj
    ELSE <<obj[1]>> \o insert(Tail(obj), key, v)

\* Vec::insert(0, v).
push_front(array, v) == <<v>> \o array

\* Vec::push.
push(array, v) == Append(array, v)

(***************************************************************************)
(* The parser (parser.rs).  Every function takes the tokens and the cursor *)
(* index and returns, with its result, the index it leaves.                *)
(***************************************************************************)
POk(v, idx)  == [res |-> "Ok", err |-> "", val |-> v, index |-> idx]
PErr(idx)    == [res |-> "Err", err |-> "ParserError", val |-> None, index |-> idx]
\* Result::unwrap of a parser result.
Punwrap(r)   == IF r.res = "Err" THEN [r EXCEPT !.res = "Panic"] ELSE r

\* Parser::peek: the token at the cursor, which stays.
peek(toks, idx) ==
    IF idx < Len(toks) THEN POk(toks[idx + 1], idx) ELSE PErr(idx)

\* A next that moves the cursor past all the tokens.
next_to_end(toks, idx) ==
    IF idx < Len(toks) THEN POk(toks[idx + 1], Len(toks)) ELSE PErr(idx + 1)

\* Parser::next: advance the cursor, then the token it was at; the cursor
\* advances also when there is none.
next(toks, idx) ==
    IF idx < Len(toks) THEN POk(toks[idx + 1], idx + 1) ELSE PErr(idx + 1)

RECURSIVE Parser_parse(_, _)
RECURSIVE parse_array_loop(_, _, _)
RECURSIVE parse_object_loop(_, _, _)

\* Parser::parse_array.
parse_array(toks, idx) ==
    LET t == next(toks, idx)
    IN  IF t.res # "Ok" THEN t
        ELSE IF t.val # TLeftBracket THEN PErr(t.index)
        ELSE parse_array_loop(toks, t.index, <<>>)

\* The loop of parse_array: a value, then ] or ,.
parse_array_loop(toks, idx, array) ==
    LET v == Parser_parse(toks, idx)
    IN  IF v.res # "Ok" THEN v
        ELSE LET t == next(toks, v.index)
             IN  IF t.res # "Ok" THEN t
                 ELSE IF t.val = TRightBracket THEN POk(VArray(push(array, v.val)), t.index)
                 ELSE IF t.val = TComma THEN parse_array_loop(toks, t.index, push(array, v.val))
                 ELSE PErr(t.index)

\* Parser::parse_object.
parse_object(toks, idx) ==
    LET t == next(toks, idx)
    IN  IF t.res # "Ok" THEN t
        ELSE IF t.val # TLeftBrace THEN PErr(t.index)
        ELSE parse_object_loop(toks, t.index, <<>>)

\* The loop of parse_object: } or a key, then a token, which with the key
\* must be (String, Colon); the value (unwrapped); then } or ,.
parse_object_loop(toks, idx, obj) ==
    LET t1 == next(toks, idx)
    IN  IF t1.res # "Ok" THEN t1
        ELSE IF t1.val = TRightBrace THEN POk(VObject(obj), t1.index)
        ELSE LET t2 == next(toks, t1.index)
             IN  IF t2.res # "Ok" THEN t2
                 ELSE IF ~(t1.val.type = "String" /\ t2.val = TColon) THEN PErr(t2.index)
                 ELSE LET v == Punwrap(Parser_parse(toks, t2.index))
                      IN  IF v.res # "Ok" THEN v
                          ELSE LET obj2 == insert(obj, t1.val.s, v.val)
                                   t3   == next(toks, v.index)
                               IN  IF t3.res # "Ok" THEN t3
                                   ELSE IF t3.val = TRightBrace THEN POk(VObject(obj2), t3.index)
                                   ELSE IF t3.val = TComma
                                   THEN parse_object_loop(toks, t3.index, obj2)
                                   ELSE PErr(t3.index)

\* Parser::parse: dispatch on the token at the cursor.
Parser_parse(toks, idx) ==
    LET p == peek(toks, idx)
    IN  IF p.res # "Ok" THEN p
        ELSE LET peeked_token == p.val
                 n            == next(toks, idx)
             IN  CASE peeked_token.type = "LeftBrace"   -> parse_object(toks, idx)
                   [] peeked_token.type = "LeftBracket" -> parse_array(toks, idx)
                   [] peeked_token.type = "Bool"   -> POk(VBool(peeked_token.b), n.index)
                   [] peeked_token.type = "Null"   -> POk(VNull, n.index)
                   [] peeked_token.type = "Number" -> POk(VNumber(peeked_token.n), n.index)
                   [] peeked_token.type = "String" -> POk(VString(peeked_token.s), n.index)
                   [] OTHER -> PErr(idx)

(***************************************************************************)
(* The renderers (bin/jp.rs).  What they print is returned as text.        *)
(***************************************************************************)
\* The decimal digits of a natural number.
RECURSIVE Digits(_)
Digits(m) ==
    IF m < 10 THEN <<DIGIT0 + m>> ELSE Append(Digits(m \div 10), DIGIT0 + (m % 10))

\* n times the character c.
Repeat(c, n) == [i \in 1..n |-> c]

\* Display for f64 ("{}"): plain decimal notation, no exponent, no trailing
\* ".0", the shortest digits that read back as the same number.
FormatF64(x) ==
    LET d    == Digits(x.m)
        k    == 0 - x.e
        sign == IF x.neg THEN <<MINUS>> ELSE <<>>
        body == IF x.e >= 0 THEN d \o Repeat(DIGIT0, x.e)
                ELSE IF Len(d) > k
                THEN SubSeq(d, 1, Len(d) - k) \o <<DOT>> \o SubSeq(d, Len(d) - k + 1, Len(d))
                ELSE <<DIGIT0, DOT>> \o Repeat(DIGIT0, k - Len(d)) \o d
    IN  sign \o body

\* Display for bool.
FormatBool(b) == IF b THEN TrueText ELSE FalseText

\* An ANSI colour: ESC [ code m, the text, ESC [ m.
Colored(code, s) ==
    <<ESC, LBRACKET, DIGIT3, code, LOWER_M>> \o s \o <<ESC, LBRACKET, LOWER_M>>
red(s)    == Colored(DIGIT1, s)
green(s)  == Colored(DIGIT2, s)
yellow(s) == Colored(DIGIT3, s)

RECURSIVE do_minimum_output(_, _)
RECURSIVE MinimumItems(_, _, _)
RECURSIVE MinimumEntries(_, _, _)

\* The for_each of the Array arm: the items from the i-th on, a comma after
\* each but the last.
MinimumItems(vs, i, color) ==
    IF i > Len(vs) THEN <<>>
    ELSE do_minimum_output(vs[i], color)
         \o (IF i # Len(vs) THEN <<COMMA>> ELSE <<>>)
         \o MinimumItems(vs, i + 1, color)

\* The for_each of the Object arm, over the entries in the map's order.
MinimumEntries(vs, i, color) ==
    IF i > Len(vs) THEN <<>>
    ELSE <<QUOTE>> \o (IF color THEN yellow(vs[i].k) ELSE vs[i].k) \o <<QUOTE, COLON>>
         \o do_minimum_output(vs[i].v, color)
         \o (IF i # Len(vs) THEN <<COMMA>> ELSE <<>>)
         \o MinimumEntries(vs, i + 1, color)

\* do_minimum_output: the compact rendering.
do_minimum_output(v, color) ==
    CASE v.type = "Number" -> FormatF64(v.n)
      [] v.type = "Bool"   -> FormatBool(v.b)
      [] v.type = "String" -> <<QUOTE>> \o (IF color THEN green(v.s) ELSE v.s) \o <<QUOTE>>
      [] v.type = "Array"  -> <<LBRACKET>> \o MinimumItems(v.items, 1, color) \o <<RBRACKET>>
      [] v.type = "Object" -> <<LBRACE>> \o MinimumEntries(v.entries, 1, color) \o <<RBRACE>>
      [] v.type = "Null"   -> IF color THEN red(NullText) ELSE NullText

\* A renderer that takes no child for a container.
NeverContainer(v) == FALSE

\* The match of a child in do_output: an Object or an Array is rendered with
\* its opening bracket already positioned.
IsContainer(v) == v.type \in {"Object", "Array"}

RECURSIVE do_output(_, _, _, _)
RECURSIVE OutputItems(_, _, _, _)
RECURSIVE OutputEntries(_, _, _, _)

\* The for_each of the Array arm of do_output.
OutputItems(vs, i, color, indent) ==
    IF i > Len(vs) THEN <<>>
    ELSE Repeat(SPACE, indent + 3)
         \o do_output(vs[i], color, indent + 3, IsContainer(vs[i]))
         \o (IF i # Len(vs) THEN <<COMMA, NEWLINE>> ELSE <<NEWLINE>>)
         \o OutputItems(vs, i + 1, color, indent)

\* The for_each of the Object arm of do_output.
OutputEntries(vs, i, color, indent) ==
    IF i > Len(vs) THEN <<>>
    ELSE Repeat(SPACE, indent + 3)
         \o <<QUOTE>> \o (IF color THEN yellow(vs[i].k) ELSE vs[i].k) \o <<QUOTE, COLON, SPACE>>
         \o do_output(vs[i].v, color, indent + 3, IsContainer(vs[i].v))
         \o (IF i # Len(vs) THEN <<COMMA, NEWLINE>> ELSE <<NEWLINE>>)
         \o OutputEntries(vs, i + 1, color, indent)

\* do_output: the indented rendering; special says the opening bracket is
\* already positioned.
do_output(v, color, indent, special) ==
    CASE v.type = "Number" -> FormatF64(v.n)
      [] v.type = "Bool"   -> FormatBool(v.b)
      [] v.type = "String" -> <<QUOTE>> \o (IF color THEN green(v.s) ELSE v.s) \o <<QUOTE>>
      [] v.type = "Array"  ->
            (IF special THEN <<>> ELSE Repeat(SPACE, indent)) \o <<LBRACKET, NEWLINE>>
            \o OutputItems(v.items, 1, color, indent)
            \o Repeat(SPACE, indent) \o <<RBRACKET>>
      [] v.type = "Object" ->
            (IF special THEN <<>> ELSE Repeat(SPACE, indent)) \o <<LBRACE, NEWLINE>>
            \o OutputEntries(v.entries, 1, color, indent)
            \o Repeat(SPACE, indent) \o <<RBRACE>>
      [] v.type = "Null"   -> IF color THEN red(NullText) ELSE NullText

(***************************************************************************)
(* Inputs.  A text or a token sequence is the concatenation of at most a   *)
(* bounded number of fragments.                                            *)
(***************************************************************************)
MaxPieces    == 3    \* fragments of a text handed to parse
MaxStrPieces == 3    \* fragments of a string body handed to parse_string
MaxTokPieces == 4    \* fragments of a token sequence handed to Parser
MaxItems     == 2    \* items of a container handed to the renderer
MaxReadPieces == 2   \* fragments of a text that jp reads (runs checked for termination)

RECURSIVE Flatten(_)
Flatten(ss) == IF ss = <<>> THEN <<>> ELSE ss[1] \o Flatten(Tail(ss))

\* The concatenation of the fragments of pieces that f picks, in order.
Pick(pieces, f) == Flatten([i \in DOMAIN f |-> pieces[f[i]]])

\* x is the concatenation of at most n fragments drawn from pieces.
IsConcat(x, pieces, n) ==
    \E k \in 0..n : \E f \in [1..k -> 1..Len(pieces)] : x = Pick(pieces, f)

\* Fragments of a JSON text: structural characters, whitespace, number
\* characters, literals well and badly spelt, strings well and badly formed.
TextPieces ==
    << <<LBRACE>>, <<RBRACE>>, <<LBRACKET>>, <<RBRACKET>>, <<COMMA>>, <<COLON>>,
       <<SPACE>>, <<NEWLINE>>,
       Txt(<<"1">>), Txt(<<"-">>), Txt(<<"e">>), <<SUPER2>>, Txt(<<"x">>),
       Txt(<<"t", "r", "u", "e">>), Txt(<<"t", "r", "u">>),
       Txt(<<"f", "a", "l", "s", "e">>), Txt(<<"n", "u", "l", "l">>),
       Txt(<<"\"", "a", "\"">>), Txt(<<"\"">>),
       Txt(<<"\"", "\\", "q", "\"">>),
       Txt(<<"\"", "\\", "u", "D", "8", "0", "0", "\"">>),
       Txt(<<"\"", "\\", "u", "z", "z", "z", "z", "\"">>) >>

\* Fragments of a string body: the eight standard escapes, \u escapes (a high
\* surrogate, a low surrogate, a scalar, one with a letter that is no digit,
\* one with no digit, one cut short), plain characters, the quote, a lone
\* backslash and an unsupported escape.
StringPieces ==
    << Txt(<<"\\", "\"">>), Txt(<<"\\", "\\">>), Txt(<<"\\", "/">>), Txt(<<"\\", "b">>),
       Txt(<<"\\", "f">>), Txt(<<"\\", "n">>), Txt(<<"\\", "r">>), Txt(<<"\\", "t">>),
       Txt(<<"\\", "u", "D", "8", "3", "D">>), Txt(<<"\\", "u", "D", "E", "0", "4">>),
       Txt(<<"\\", "u", "0", "0", "4", "1">>), Txt(<<"\\", "u", "0", "0", "g", "1">>),
       Txt(<<"\\", "u", "z", "z", "z", "z">>), Txt(<<"\\", "u", "1", "2">>),
       Txt(<<"a">>), Txt(<<"\"">>), Txt(<<"\\">>), Txt(<<"\\", "q">>) >>

KeyA == Txt(<<"a">>)
KeyB == Txt(<<"b">>)
One  == F64(FALSE, 1, 0)
Two  == F64(FALSE, 2, 0)

\* Fragments of a token sequence: single tokens, members, items with their
\* comma, and a whole object whose keys are out of order.
TokenPieces ==
    << <<TLeftBrace>>, <<TRightBrace>>, <<TLeftBracket>>, <<TRightBracket>>,
       <<TComma>>, <<TColon>>, <<TString(KeyA)>>, <<TNumber(One)>>,
       <<TString(KeyA), TColon, TNumber(Two)>>,
       <<TString(KeyB), TColon, TNumber(One), TComma>>,
       <<TString(KeyA), TColon, TNumber(One), TComma>>,
       <<TNumber(One), TComma>>, <<TNumber(Two), TComma>>,
       <<TLeftBrace, TString(KeyB), TColon, TNull, TComma,
         TString(KeyA), TColon, TBool(TRUE), TRightBrace>> >>

NoResult == [res |-> "None", err |-> "", val |-> None]

(***************************************************************************)
(* The operations.                                                         *)
(***************************************************************************)
\* A loop body that pushes every token, the whitespace too.
push_every_token(toks, token) == Append(toks, token)

\* The body of the loop of lexical_analyze: a WhiteSpace token is dropped,
\* any other token is pushed.
push_token(toks, token) ==
    IF token = TWhiteSpace THEN toks ELSE Append(toks, token)

\* The loop of lexical_analyze takes a turn: the lexer is running, and
\* next_token is called once more.  A turn is possible whenever the lexer is
\* running, next_token being defined on every text.
loop_turn ==
    /\ pc = "lex"
    /\ calls' = calls + 1

\* One turn of the loop of Lexer::lexical_analyze: a call of next_token,
\* unwrapped; a token is pushed unless it is whitespace; None ends the loop
\* and lexical_analyze returns Ok(tokens), on which parse (lib.rs) goes on to
\* the parser.
lexical_analyze ==
    /\ loop_turn
    /\ LET r == unwrap(next_token(chars))
       IN  /\ chars' = r.chars
           /\ IF r.res # "Ok"
              THEN /\ result' = [res |-> r.res, err |-> r.err, val |-> None]
                   /\ pc' = "done"
                   /\ tokens' = tokens
              ELSE IF r.val = None
              THEN /\ pc' = "parse"
                   /\ UNCHANGED <<result, tokens>>
              ELSE /\ tokens' = push_token(tokens, r.val)
                   /\ UNCHANGED <<pc, result>>
    /\ UNCHANGED <<value, input, index, out>>

\* Parser::new(tokens).parse(): the parser runs from index 0, and its result
\* is the result of parse (lib.rs).
parse ==
    /\ pc = "parse"
    /\ LET r == Parser_parse(tokens, 0)
       IN  /\ result' = [res |-> r.res, err |-> r.err, val |-> r.val]
           /\ index' = r.index
    /\ pc' = "done"
    /\ UNCHANGED <<value, input, chars, tokens, out, calls>>

\* The end of main: the parsed value is printed, compact or indented, with
\* or without colour.
main ==
    /\ pc = "done"
    /\ result.res = "Ok"
    /\ \E minimize_output \in BOOLEAN, color_output \in BOOLEAN :
         out' = IF minimize_output
                THEN do_minimum_output(result.val, color_output)
                ELSE do_output(result.val, color_output, 0, FALSE)
    /\ pc' = "printed"
    /\ UNCHANGED <<value, input, chars, tokens, index, result, calls>>

\* Lexer::new(input).parse_string(), as the tests of the lexer call it.
call_parse_string ==
    /\ pc = "string"
    /\ result' = parse_string(chars)
    /\ chars' = result'.chars
    /\ pc' = "done"
    /\ UNCHANGED <<value, input, tokens, index, out, calls>>

\* The compact rendering of a value, without colour, handed to parse.
render_compact ==
    /\ pc = "render"
    /\ input' = do_minimum_output(value, FALSE)
    /\ chars' = input'
    /\ pc' = "lex"
    /\ UNCHANGED <<value, tokens, index, result, out, calls>>

\* The indented rendering of a value, as main asks for it: do_output from
\* indent 0, the opening bracket not yet positioned.
render_indented ==
    /\ pc = "output"
    /\ \E color_output \in BOOLEAN : out' = do_output(value, color_output, 0, FALSE)
    /\ pc' = "printed"
    /\ UNCHANGED <<value, input, chars, tokens, index, result, calls>>

\* The start of main: the text is read, from the file or from stdin, and
\* handed to parse, which makes a Lexer of it.
read_input ==
    /\ pc = "read"
    /\ IsConcat(input', TextPieces, MaxReadPieces)
    /\ chars' = input'
    /\ pc' = "lex"
    /\ UNCHANGED <<value, tokens, index, result, out, calls>>

(***************************************************************************)
(* Specifications.                                                         *)
(***************************************************************************)
\* jp on a text: parse(text), then the output.
Init ==
    /\ IsConcat(input, TextPieces, MaxPieces)
    /\ chars = input
    /\ pc = "lex"
    /\ value = None
    /\ tokens = <<>>
    /\ index = 0
    /\ result = NoResult
    /\ out = <<>>
    /\ calls = 0

Next == lexical_analyze \/ parse \/ main

Spec == Init /\ [][Next]_vars

\* jp from its start: the text is read, then parsed, then the output; the
\* loop of lexical_analyze takes its turns as long as it can, being
\* sequential code that nothing but its own exit stops.  Among the steps of
\* NextRead those of loop_turn, which all change calls, are those of
\* lexical_analyze.
InitRead ==
    /\ pc = "read"
    /\ input = <<>>
    /\ chars = <<>>
    /\ value = None
    /\ tokens = <<>>
    /\ index = 0
    /\ result = NoResult
    /\ out = <<>>
    /\ calls = 0

NextRead == read_input \/ lexical_analyze \/ parse \/ main

FairSpec == InitRead /\ [][NextRead]_vars /\ WF_calls(loop_turn)

\* parse_string on a text that starts a string.
InitString ==
    /\ \E k \in 0..MaxStrPieces : \E f \in [1..k -> 1..Len(StringPieces)] :
         input = <<QUOTE>> \o Pick(StringPieces, f)
    /\ chars = input
    /\ pc = "string"
    /\ value = None
    /\ tokens = <<>>
    /\ index = 0
    /\ result = NoResult
    /\ out = <<>>
    /\ calls = 0

NextString == call_parse_string

SpecString == InitString /\ [][NextString]_vars

\* The parser on a token sequence, then the output.
InitParser ==
    /\ IsConcat(tokens, TokenPieces, MaxTokPieces)
    /\ pc = "parse"
    /\ input = <<>>
    /\ chars = <<>>
    /\ value = None
    /\ index = 0
    /\ result = NoResult
    /\ out = <<>>
    /\ calls = 0

NextParser == parse \/ main

SpecParser == InitParser /\ [][NextParser]_vars

\* The values handed to the renderer: scalars, and containers of at most
\* MaxItems items drawn from the scalars and a few small containers.
ScalarValues ==
    { VNull, VBool(TRUE), VBool(FALSE),
      VNumber(One), VNumber(F64(TRUE, 15, 0 - 1)), VNumber(F64(FALSE, 2, 1)),
      VNumber(F64(FALSE, 5, 0 - 3)),
      VString(<<>>), VString(KeyA), VString(<<QUOTE>>), VString(<<BACKSLASH>>),
      VString(<<BACKSLASH, LOWER_N>>), VString(<<SPACE>>) }

InnerValues ==
    { VArray(<<>>), VObject(<<>>), VArray(<<VNumber(One)>>),
      VObject(<<[k |-> KeyA, v |-> VNull]>>),
      VArray(<<VArray(<<VNumber(Two)>>)>>) }

ItemValues == ScalarValues \cup InnerValues

Keys == { KeyA, KeyB, KeyB \o KeyA }

\* The map holding the value g[k] for each key k of ks.
RECURSIVE MapOf(_, _)
MapOf(ks, g) ==
    IF ks = {} THEN <<>>
    ELSE LET k == CHOOSE x \in ks : TRUE
         IN  insert(MapOf(ks \ {k}, g), k, g[k])

IsRenderInput(v) ==
    \/ v \in ScalarValues
    \/ \E n \in 0..MaxItems : \E f \in [1..n -> ItemValues] : v = VArray(f)
    \/ \E ks \in SUBSET Keys :
          /\ Cardinality(ks) <= MaxItems
          /\ \E g \in [ks -> ItemValues] : v = VObject(MapOf(ks, g))

\* parse on the compact rendering of a value.
InitRound ==
    /\ IsRenderInput(value)
    /\ pc = "render"
    /\ input = <<>>
    /\ chars = <<>>
    /\ tokens = <<>>
    /\ index = 0
    /\ result = NoResult
    /\ out = <<>>
    /\ calls = 0

NextRound == render_compact \/ lexical_analyze \/ parse

SpecRound == InitRound /\ [][NextRound]_vars

\* do_output on a value.
InitOutput ==
    /\ IsRenderInput(value)
    /\ pc = "output"
    /\ input = <<>>
    /\ chars = <<>>
    /\ tokens = <<>>
    /\ index = 0
    /\ result = NoResult
    /\ out = <<>>
    /\ calls = 0

NextOutput == render_indented

SpecOutput == InitOutput /\ [][NextOutput]_vars

(***************************************************************************)
(* Properties.                                                             *)
(***************************************************************************)
Finished == pc \in {"done", "printed"}

\* C1: whenever tokenization meets a character-level error (a LexerError is
\* raised anywhere in the lexer), parse(text) returns Err(LexerError) to its
\* caller, and parse(text) never panics.
C1_LexerErrorIsReturned ==
    Finished =>
        /\ result.res # "Panic"
        /\ result.err = "LexerError" => result.res = "Err"

\* C2: whenever the parser meets a grammar violation (a ParserError is raised
\* anywhere in it, the premature end of the tokens included, at any depth),
\* Parser::parse returns Err(ParserError), with no value, and never panics.
C2_ParserErrorIsReturned ==
    Finished =>
        /\ result.res # "Panic"
        /\ result.err = "ParserError" => (result.res = "Err" /\ result.val = None)

\* C3: parsing the compact rendering, without colour, of a value yields a
\* value equal to it.
C3_RoundTrip ==
    Finished => (result.res = "Ok" /\ result.val = value)

\* C4: the tokens [ ] parse to the Array with no element, as the tokens { }
\* parse to the Object with no entry.
C4_EmptyArrayParses ==
    Finished =>
        /\ tokens = <<TLeftBrace, TRightBrace>> =>
              (result.res = "Ok" /\ result.val = VObject(<<>>))
        /\ tokens = <<TLeftBracket, TRightBracket>> =>
              (result.res = "Ok" /\ result.val = VArray(<<>>))

\* The tokens the parser consumed hold a , directly followed by a }.
CommaThenBrace ==
    \E i \in 1..(Len(tokens) - 1) :
        /\ i + 1 <= index
        /\ tokens[i] = TComma
        /\ tokens[i + 1] = TRightBrace

\* C5: a } directly after a , is a grammar violation: a parse that consumed
\* such a pair never yields a value.
C5_TrailingCommaRejected ==
    (Finished /\ CommaThenBrace) => result.res # "Ok"

IsScalarToken(t) == t.type \in {"String", "Number", "Bool", "Null"}

\* The value a scalar token stands for.
ValueOf(t) ==
    CASE t.type = "String" -> VString(t.s)
      [] t.type = "Number" -> VNumber(t.n)
      [] t.type = "Bool"   -> VBool(t.b)
      [] t.type = "Null"   -> VNull

\* toks is { k : v , ... , k : v } with at least one member, every k a
\* String token and every v a scalar token: member j has its key at 4j - 2
\* and its value at 4j.
IsFlatObject(toks) ==
    /\ Len(toks) >= 5
    /\ (Len(toks) - 1) % 4 = 0
    /\ toks[1] = TLeftBrace
    /\ \A j \in 1..((Len(toks) - 1) \div 4) :
          /\ toks[4 * j - 2].type = "String"
          /\ toks[4 * j - 1] = TColon
          /\ IsScalarToken(toks[4 * j])
          /\ toks[4 * j + 1] = IF 4 * j + 1 = Len(toks) THEN TRightBrace ELSE TComma

Members(toks)   == 1..((Len(toks) - 1) \div 4)
KeyAt(toks, j)  == toks[4 * j - 2].s

\* C6: the Object parsed from an object with duplicate keys holds one entry
\* per distinct key, and the value of a key is the value of its last
\* occurrence in the input.
C6_DuplicateKeysLastWins ==
    (Finished /\ IsFlatObject(tokens)) =>
        /\ result.res = "Ok"
        /\ result.val.type = "Object"
        /\ LET es == result.val.entries
           IN  /\ Len(es) = Cardinality({ KeyAt(tokens, j) : j \in Members(tokens) })
               /\ \A j \in Members(tokens) :
                     (\A j2 \in Members(tokens) : j2 > j => KeyAt(tokens, j2) # KeyAt(tokens, j))
                     => /\ Cardinality({ i \in 1..Len(es) : es[i].k = KeyAt(tokens, j) }) = 1
                        /\ \A i \in 1..Len(es) :
                              es[i].k = KeyAt(tokens, j) => es[i].v = ValueOf(tokens[4 * j])

\* C6's case: an object was parsed in which a key occurs twice, with
\* different values.
C6_Witness ==
    /\ Finished
    /\ IsFlatObject(tokens)
    /\ result.res = "Ok"
    /\ \E j \in Members(tokens), j2 \in Members(tokens) :
          /\ j < j2
          /\ KeyAt(tokens, j) = KeyAt(tokens, j2)
          /\ tokens[4 * j] # tokens[4 * j2]

\* The text without the colour codes that wrap it, if any.
Uncolored(s) ==
    IF Len(s) >= 8 /\ s[1] = ESC THEN SubSeq(s, 6, Len(s) - 3) ELSE s

\* The position of the first quote of text from position i on (0 if none).
RECURSIVE NextQuote(_, _)
NextQuote(text, i) ==
    IF i > Len(text) THEN 0
    ELSE IF text[i] = QUOTE THEN i
    ELSE NextQuote(text, i + 1)

\* Reading a rendered text from position i on, with the last key met in each
\* container that is open (a stack, <<>> standing for no key yet): every key
\* (a quoted text directly followed by a colon) is above the key before it in
\* the same container.  The quoted texts hold no quote.
RECURSIVE KeysAscendFrom(_, _, _)
KeysAscendFrom(text, i, stack) ==
    IF i > Len(text) THEN TRUE
    ELSE LET c == text[i] IN
    IF c \in {LBRACE, LBRACKET}
    THEN KeysAscendFrom(text, i + 1, Append(stack, <<>>))
    ELSE IF c \in {RBRACE, RBRACKET}
    THEN KeysAscendFrom(text, i + 1, SubSeq(stack, 1, Len(stack) - 1))
    ELSE IF c = QUOTE
    THEN LET j == NextQuote(text, i + 1)
             s == Uncolored(SubSeq(text, i + 1, j - 1))
         IN  IF j < Len(text) /\ text[j + 1] = COLON
             THEN /\ stack[Len(stack)] = <<>> \/ StrLess(stack[Len(stack)][1], s)
                  /\ KeysAscendFrom(text, j + 1, [stack EXCEPT ![Len(stack)] = <<s>>])
             ELSE KeysAscendFrom(text, j + 1, stack)
    ELSE KeysAscendFrom(text, i + 1, stack)

\* C7: whatever the order of the members in the source, both renderers emit
\* the members of every parsed object, at every nesting level, in ascending
\* order of key.
C7_KeysEmittedInOrder ==
    pc = "printed" => KeysAscendFrom(out, 1, <<>>)

\* C7's case: an object whose source has a key before a lesser key was
\* parsed and printed.
C7_Witness ==
    /\ pc = "printed"
    /\ IsFlatObject(tokens)
    /\ \E j \in Members(tokens), j2 \in Members(tokens) :
          j < j2 /\ StrLess(KeyAt(tokens, j2), KeyAt(tokens, j))

\* toks is [ v , ... , v ] with at least one element, every v a scalar token:
\* element j is at 2j.
IsFlatArray(toks) ==
    /\ Len(toks) >= 3
    /\ (Len(toks) - 1) % 2 = 0
    /\ toks[1] = TLeftBracket
    /\ \A j \in 1..((Len(toks) - 1) \div 2) :
          /\ IsScalarToken(toks[2 * j])
          /\ toks[2 * j + 1] = IF 2 * j + 1 = Len(toks) THEN TRightBracket ELSE TComma

Elements(toks) == 1..((Len(toks) - 1) \div 2)

\* C8: the Array parsed from an array of n elements has exactly n items, the
\* i-th the value of the i-th element of the input.
C8_ArrayOrderKept ==
    (Finished /\ IsFlatArray(tokens)) =>
        /\ result.res = "Ok"
        /\ result.val.type = "Array"
        /\ Len(result.val.items) = Cardinality(Elements(tokens))
        /\ \A j \in Elements(tokens) : result.val.items[j] = ValueOf(tokens[2 * j])

\* C8's case: an array was parsed in which two elements are equal.
C8_Witness ==
    /\ Finished
    /\ IsFlatArray(tokens)
    /\ result.res = "Ok"
    /\ \E j \in Elements(tokens), j2 \in Elements(tokens) :
          j < j2 /\ tokens[2 * j] = tokens[2 * j2]

\* The code units of the longest run of \uXXXX escapes, each of four
\* hexadecimal digits, that cs starts with.
RECURSIVE LeadingUnits(_)
LeadingUnits(cs) ==
    IF /\ Len(cs) >= 6
       /\ cs[1] = BACKSLASH
       /\ cs[2] = LOWER_U
       /\ \A k \in 3..6 : is_ascii_hexdigit(cs[k])
    THEN <<HexNumber(SubSeq(cs, 3, 6))>> \o LeadingUnits(Drop(cs, 7))
    ELSE <<>>

IsPrefix(p, s) == Len(p) <= Len(s) /\ SubSeq(s, 1, Len(p)) = p

\* C9: the run of \uXXXX escapes a string starts with is decoded as one
\* UTF-16 sequence: parse_string yields a LexerError when a surrogate of the
\* run has no partner in it, and otherwise the String token, when there is
\* one, starts with the scalars of the run, a surrogate pair giving one
\* scalar, in input order.
C9_SurrogateRunDecoded ==
    (pc = "done" /\ LeadingUnits(Tail(input)) # <<>>) =>
        LET d == from_utf16(LeadingUnits(Tail(input)))
        IN  IF d.ok
            THEN result.res = "Ok" => IsPrefix(d.s, result.val.s)
            ELSE result.res = "Err" /\ result.err = "LexerError"

\* The number of backslashes of s that end directly before position i.
RECURSIVE BackslashesBefore(_, _)
BackslashesBefore(s, i) ==
    IF i > 1 /\ s[i - 1] = BACKSLASH THEN 1 + BackslashesBefore(s, i - 1) ELSE 0

\* The character at i is the second of an escape: an odd number of
\* backslashes precede it.
Escaped(s, i) == BackslashesBefore(s, i) % 2 = 1

\* Every backslash of s that starts an escape is followed by one of the
\* eight standard escape letters.
OnlyStandardEscapes(s) ==
    \A i \in 2..Len(s) :
        (s[i] = BACKSLASH /\ ~Escaped(s, i)) => (i < Len(s) /\ s[i + 1] \in EscapeLetters)

\* The positions of the quotes of s, past the opening one, that no backslash
\* escapes.
BareQuotes(s) == { q \in 2..Len(s) : s[q] = QUOTE /\ ~Escaped(s, q) }

\* C10: in a string whose escapes are all standard ones, every escape is
\* kept as its two characters and an escaped quote does not end the string:
\* the String token is the input as written from the opening quote to the
\* first quote that is not escaped (to the end of the input when there is
\* none), and the lexer is left behind that quote.
C10_StandardEscapesKept ==
    (pc = "done" /\ OnlyStandardEscapes(input)) =>
        /\ result.res = "Ok"
        /\ IF BareQuotes(input) = {}
           THEN result.val.s = Drop(input, 2) /\ chars = <<>>
           ELSE LET q == CHOOSE x \in BareQuotes(input) : \A y \in BareQuotes(input) : x <= y
                IN  result.val.s = SubSeq(input, 2, q - 1) /\ chars = Drop(input, q + 1)

\* C10's case: a string with an escaped quote inside was lexed, and the
\* token goes on past that quote.
C10_Witness ==
    /\ pc = "done"
    /\ OnlyStandardEscapes(input)
    /\ result.res = "Ok"
    /\ \E i \in 2..(Len(input) - 1) :
          /\ input[i] = BACKSLASH
          /\ ~Escaped(input, i)
          /\ input[i + 1] = QUOTE
          /\ Len(result.val.s) > i

\* The tokens that successive calls of next_token yield on cs, the
\* whitespace ones included, each with the offset at which it starts (at is
\* the offset of cs in the input); a call that fails ends the sequence with
\* None in the place of a token.
RECURSIVE Scan(_, _)
Scan(cs, at) ==
    LET r == unwrap(next_token(cs))
    IN  IF r.res # "Ok" THEN <<[token |-> None, at |-> at]>>
        ELSE IF r.val = None THEN <<>>
        ELSE <<[token |-> r.val, at |-> at]>>
             \o Scan(r.chars, at + (Len(cs) - Len(r.chars)))

IsNoWhiteSpace(x) == x.token # TWhiteSpace

\* The tokens of a text that are no whitespace, in the order of the text.
NonWhiteTokens(text) ==
    LET kept == SelectSeq(Scan(text, 0), IsNoWhiteSpace)
    IN  [i \in 1..Len(kept) |-> kept[i].token]

\* The text with the character c put in after its first b characters.
InsertAt(text, b, c) == SubSeq(text, 1, b) \o <<c>> \o Drop(text, b + 1)

\* The offsets of a text at which a token starts.
TokenStarts(text) == { Scan(text, 0)[i].at : i \in 1..Len(Scan(text, 0)) }

\* C11: the token sequence lexical_analyze builds never holds a WhiteSpace
\* token; the sequence it returns is the tokens of the input that are no
\* whitespace, in input order; and a whitespace character put in before a
\* token of the input changes neither the tokens nor their order.
C11_WhiteSpaceDropped ==
    /\ \A i \in 1..Len(tokens) : tokens[i] # TWhiteSpace
    /\ pc = "parse" =>
          /\ tokens = NonWhiteTokens(input)
          /\ \A b \in TokenStarts(input) : \A c \in {SPACE, NEWLINE} :
                NonWhiteTokens(InsertAt(input, b, c)) = tokens

\* C11's case: lexical_analyze returned the tokens of a text that has
\* whitespace between two tokens.
C11_Witness ==
    /\ pc = "parse"
    /\ Len(tokens) >= 2
    /\ \E i \in 2..(Len(input) - 1) :
          /\ is_whitespace(input[i])
          /\ i - 1 \in TokenStarts(input)
          /\ i \in TokenStarts(input)

\* The positions of s at which a \u escape with four characters after it
\* starts, one of the four being no hexadecimal digit.
BadUnicodeEscapes(s) ==
    { i \in 2..(Len(s) - 5) :
        /\ s[i] = BACKSLASH
        /\ ~Escaped(s, i)
        /\ s[i + 1] = LOWER_U
        /\ \E k \in 2..5 : ~is_ascii_hexdigit(s[i + k]) }

\* C12: a \u escape needs four hexadecimal digits: when one of the four
\* characters read after \u is no hexadecimal digit, get_code_point yields a
\* LexerError, and a string that starts with such an escape yields a
\* LexerError with no code unit in the UTF-16 buffer.
C12_FourHexDigits ==
    pc = "done" =>
        /\ \A i \in BadUnicodeEscapes(input) :
              LET cp == get_code_point(Drop(input, i + 2))
              IN  cp.res = "Err" /\ cp.err = "LexerError"
        /\ 2 \in BadUnicodeEscapes(input) =>
              /\ result.res = "Err"
              /\ result.err = "LexerError"
              /\ result.utf16 = <<>>

\* C13: whenever parse_string returns a String token, the UTF-16 buffer is
\* empty at the return: every code unit a \u escape pushed has been decoded
\* and appended to the token, whether the string ends at its closing quote
\* or at the end of the input.
C13_BufferFlushedAtReturn ==
    (pc = "done" /\ result.res = "Ok") => result.utf16 = <<>>

\* The positions of the newlines of a text.
Breaks(text) == { i \in 1..Len(text) : text[i] = NEWLINE }

\* The position of the k-th newline of a text; 0 for k = 0, and the position
\* past the end of the text when it has fewer than k newlines.
BreakAt(text, k) ==
    IF k = 0 THEN 0
    ELSE IF k > Cardinality(Breaks(text)) THEN Len(text) + 1
    ELSE CHOOSE p \in Breaks(text) : Cardinality({ q \in Breaks(text) : q < p }) = k - 1

\* The lines of a text: the runs between its newlines.
SplitLines(text) ==
    [k \in 1..(Cardinality(Breaks(text)) + 1) |->
        SubSeq(text, BreakAt(text, k - 1) + 1, BreakAt(text, k) - 1)]

\* The number of spaces a line starts with, counted from position i on.
RECURSIVE LeadingSpaces(_, _)
LeadingSpaces(line, i) ==
    IF i <= Len(line) /\ line[i] = SPACE THEN 1 + LeadingSpaces(line, i + 1) ELSE 0

\* A line past its leading spaces.
Body(line) == Drop(line, LeadingSpaces(line, 1) + 1)

Closes(line) == Body(line) # <<>> /\ Body(line)[1] \in {RBRACKET, RBRACE}
Opens(line)  == Body(line) # <<>> /\ Body(line)[Len(Body(line))] \in {LBRACKET, LBRACE}

\* The lines from the k-th on are laid out as the lines of containers open to
\* the depth open (the number of containers open before line k).  The quoted
\* texts hold no newline and end no line with a bracket or a comma.
\*   - a closing line has 3 * (open - 1) spaces, then the bracket, then at
\*     most a comma;
\*   - any other line is a child line, with 3 * open spaces (the first line
\*     of the text, the value itself, has none);
\*   - a child line that opens a container holds the bracket alone, or the
\*     bracket one space after the colon of its key;
\*   - a line that ends a child (it opens no container) ends with a comma
\*     exactly when the next line is no closing line.
RECURSIVE LayoutOk(_, _, _)
LayoutOk(lines, k, open) ==
    IF k > Len(lines) THEN open = 0
    ELSE LET line == lines[k]
             body == Body(line)
             n    == Len(body)
         IN  /\ body # <<>>
             /\ LeadingSpaces(line, 1) =
                    IF Closes(line) THEN 3 * (open - 1)
                    ELSE IF k = 1 THEN 0
                    ELSE 3 * open
             /\ Closes(line) => (open >= 1 /\ (n = 1 \/ (n = 2 /\ body[2] = COMMA)))
             /\ Opens(line) =>
                    \/ n = 1
                    \/ k > 1 /\ n >= 5 /\ body[1] = QUOTE
                             /\ SubSeq(body, n - 3, n - 1) = <<QUOTE, COLON, SPACE>>
             /\ ~Opens(line) =>
                    (body[n] = COMMA <=> (k < Len(lines) /\ ~Closes(lines[k + 1])))
             /\ LayoutOk(lines, k + 1,
                         IF Closes(line) THEN open - 1
                         ELSE IF Opens(line) THEN open + 1
                         ELSE open)

\* The number of lines a value takes: one for a scalar; for a container its
\* opening line, the lines of its children and its closing line.
RECURSIVE LinesOf(_)
RECURSIVE LinesOfAll(_, _)
LinesOfAll(vs, i) ==
    IF i > Len(vs) THEN 0
    ELSE LinesOf(IF "k" \in DOMAIN vs[i] THEN vs[i].v ELSE vs[i]) + LinesOfAll(vs, i + 1)
LinesOf(v) ==
    IF v.type = "Array" THEN 2 + LinesOfAll(v.items, 1)
    ELSE IF v.type = "Object" THEN 2 + LinesOfAll(v.entries, 1)
    ELSE 1

\* C14: in the indented rendering every child of a container at depth d is
\* on a line of its own that starts with exactly 3 * (d + 1) spaces, the
\* closing bracket of the container has exactly 3 * d spaces before it, every
\* child ends with a comma but the last, and a container that is a child
\* has its opening bracket on its parent's child line, with no indent of its
\* own.
C14_IndentedLayout ==
    pc = "printed" =>
        /\ LayoutOk(SplitLines(out), 1, 0)
        /\ Len(SplitLines(out)) = LinesOf(value)

\* C14's case: a container was printed whose first child is a container
\* with a child of its own, and which has a second child.
C14_Witness ==
    /\ pc = "printed"
    /\ value.type = "Array"
    /\ Len(value.items) = 2
    /\ value.items[1].type = "Array"
    /\ value.items[1].items # <<>>
    /\ value.items[1].items[1].type = "Array"

\* C15: Parser::parse reads the tokens of the first complete value and no
\* further: when it succeeds on the tokens with a value, the cursor is within
\* the tokens, it succeeds with the same value and cursor on the tokens up to
\* the cursor alone, and on the tokens followed by any extra tokens.
C15_ExtraTokensIgnored ==
    (Finished /\ result.res = "Ok") =>
        /\ index <= Len(tokens)
        /\ LET p == Parser_parse(SubSeq(tokens, 1, index), 0)
           IN  p.res = "Ok" /\ p.val = result.val /\ p.index = index
        /\ \A i \in 1..Len(TokenPieces) :
              LET r == Parser_parse(tokens \o TokenPieces[i], 0)
              IN  r.res = "Ok" /\ r.val = result.val /\ r.index = index

\* C15's case: the parser yielded a container and left tokens unread.
C15_Witness ==
    /\ Finished
    /\ result.res = "Ok"
    /\ result.val.type \in {"Array", "Object"}
    /\ index < Len(tokens)

\* The characters of the input that the lexer has consumed.
Consumed == Len(input) - Len(chars)

\* C16: tokenization makes progress and terminates: every call of next_token
\* that yields a token (the loop goes on) consumes at least one character, so
\* the calls made while the loop runs never outnumber the characters
\* consumed, lexical_analyze is done after at most as many calls as the input
\* has characters, plus one, and on every input it does finish.
C16_LexerTerminates ==
    /\ [][(pc = "lex" /\ pc' = "lex") => Len(chars') < Len(chars)]_vars
    /\ [](calls <= IF pc = "lex" THEN Consumed ELSE Len(input) + 1)
    /\ (pc = "lex") ~> (pc # "lex")

\* C16's case: lexical_analyze returned after as many calls as the input
\* has characters, plus one, a number of one character among the tokens.
C16_Witness ==
    /\ pc = "parse"
    /\ Len(input) >= 2
    /\ calls = Len(input) + 1
    /\ \E i \in 1..Len(tokens) : tokens[i].type = "Number"

====
